---------------------------- MODULE Spec2Model ----------------------------
(***************************************************************************)
(* Model of the batch SEO audit route (app/api/audit/route.ts):            *)
(*   - evaluateHome: the on-page checks of one page                        *)
(*   - scoreCategories: the weighted category / overall score and grade    *)
(*   - POST / auditOne: the batch handler and the per-origin audits        *)
(*   - extractJsonLd / extractSchemaTypes: structured data and suggestions *)
(*   - discoverContacts: the contacts of the crawled pages and the best    *)
(*                                                                         *)
(* Markup is represented by what the code's regular expressions measure on *)
(* it (lengths, counts, presence flags, the sequence of heading levels).   *)
(* Scores are IEEE doubles in the code; here they are exact rationals kept  *)
(* as integer numerators over a fixed denominator.  For every combination  *)
(* of category sums the double computation and the exact one round and     *)
(* grade identically (no half-way case is hit by a rounding error).        *)
(***************************************************************************)
EXTENDS Integers, Sequences, FiniteSets, TLC

VARIABLES
    page,        \* SpecEval: the page handed to evaluateHome
    evaluated,   \* SpecEval: evaluateHome's return value, or None
    issues,      \* SpecScore: the issue list handed to scoreCategories
    scored,      \* SpecScore: scoreCategories' return value, or None
    rescored,    \* SpecScore: how many neighbouring lists were scored
    lastChanged, \* SpecScore: catalogue position of the check changed last
    body,        \* POST: the request body, [url, enrichment]
    env,         \* POST: process.env, [PSI_KEY, N8N] (is the variable set)
    hpc,         \* POST: where the handler is: idle, start, auditing, webhook, done
    dedup,       \* POST: the deduplicated origins
    audits,      \* POST: the auditOne call of each origin of dedup
    webhook,     \* POST: the webhook request: unsent, pending, or its outcome
    response,    \* POST: the HTTP response, or None
    faults,      \* how many requests have been answered other than plain ok
    html,        \* SpecJsonLd: the ld+json script blocks of a page, in document order
    jsonld,      \* SpecJsonLd: extractJsonLd's return value, or None
    schema,      \* SpecJsonLd: [detectedTypes, suggestions] of auditOne, or None
    crawled,     \* SpecContacts: the pages handed to discoverContacts
    found        \* SpecContacts: discoverContacts' return value, or None

vars == <<page, evaluated, issues, scored, rescored, lastChanged,
          body, env, hpc, dedup, audits, webhook, response, faults,
          html, jsonld, schema, crawled, found>>

\* an optional value: None, or Some(v) read back as v[1]
None == << >>
Some(v) == << v >>

-----------------------------------------------------------------------------
(* Bounds of the model *)

\* scoring is explored on issue lists at most this many status changes away
\* from a base list
MaxChanges == 2
\* longest heading sequence of a page
MaxHeadings == 3
\* most <img> elements on a page
MaxImages == 3
\* longest list of URLs submitted when the audits are followed request by request
MaxList == 2
\* most requests of one run that are answered other than with a plain 2xx
MaxFaults == 2
\* length of the long list of URLs submitted when the batch is followed audit by audit
LongLen == 12
\* most ld+json blocks on a page
MaxBlocks == 2
\* most crawled pages handed to discoverContacts
MaxPages == 2

-----------------------------------------------------------------------------
(* Generic helpers *)

RECURSIVE SumOver(_, _)
\* entries.reduce((s, [, w]) => s + w, 0) over a finite key set
SumOver(S, f) ==
    IF S = {} THEN 0
    ELSE LET x == CHOOSE y \in S : TRUE
         IN  f[x] + SumOver(S \ {x}, f)

\* Math.round of the non-negative rational num/den (round half up)
MathRound(num, den) == (2 * num + den) \div (2 * den)

-----------------------------------------------------------------------------
(* Scoring *)

Status == {"pass", "warn", "fail"}

\* statusToScore, doubled so that it stays an integer: pass 1, warn 0.5, fail 0
statusToScore2 == [pass |-> 2, warn |-> 1, fail |-> 0]

\* the weights with image_alt weighted under technical_seo instead of onpage_seo
weightsImageAltTechnical ==
    [technical_seo |-> [viewport_meta |-> 2, meta_robots |-> 4, canonical_tag |-> 4,
                        https_mixed_content |-> 3, image_alt |-> 3],
     onpage_seo    |-> [title_tag |-> 6, meta_description |-> 4, h1_tag |-> 4,
                        heading_hierarchy |-> 2, image_lazy |-> 2,
                        image_filename |-> 1, internal_links |-> 5, word_count |-> 3,
                        publish_date |-> 2],
     entity_trust  |-> [open_graph |-> 2, entity_schema_org |-> 4, entity_nap |-> 3,
                        entity_social_profiles |-> 1],
     hygiene       |-> [hygiene_favicon |-> 1, hygiene_manifest |-> 1, hygiene_charset |-> 2,
                        hygiene_html_lang |-> 2, hygiene_copyright_year |-> 1]]

weights ==
    [technical_seo |-> [viewport_meta |-> 2, meta_robots |-> 4, canonical_tag |-> 4,
                        https_mixed_content |-> 3],
     onpage_seo    |-> [title_tag |-> 6, meta_description |-> 4, h1_tag |-> 4,
                        heading_hierarchy |-> 2, image_alt |-> 3, image_lazy |-> 2,
                        image_filename |-> 1, internal_links |-> 5, word_count |-> 3,
                        publish_date |-> 2],
     entity_trust  |-> [open_graph |-> 2, entity_schema_org |-> 4, entity_nap |-> 3,
                        entity_social_profiles |-> 1],
     hygiene       |-> [hygiene_favicon |-> 1, hygiene_manifest |-> 1, hygiene_charset |-> 2,
                        hygiene_html_lang |-> 2, hygiene_copyright_year |-> 1]]

overallWeights == [technical_seo |-> 35, onpage_seo |-> 35, entity_trust |-> 20, hygiene |-> 10]

categories == <<"technical_seo", "onpage_seo", "entity_trust", "hygiene">>

\* new Map(issues.map(i => [i.id, i])).get(id)?.status || 'fail':
\* the last issue with that id wins, an absent id scores as fail
byIdStatus(iss, id) ==
    LET at == {i \in 1..Len(iss) : iss[i].id = id}
    IN  IF at = {} THEN "fail"
        ELSE iss[CHOOSE i \in at : \A j \in at : j <= i].status

\* entries.reduce((s,[,w]) => s + w, 0) || 1
sumW(cat) ==
    LET s == SumOver(DOMAIN weights[cat], weights[cat])
    IN  IF s = 0 THEN 1 ELSE s

\* twice raw: entries.reduce((s,[id,w]) => s + statusToScore[status] * w, 0)
raw2(iss, cat) ==
    LET m == weights[cat]
    IN  SumOver(DOMAIN m, [id \in DOMAIN m |-> statusToScore2[byIdStatus(iss, id)] * m[id]])

\* In the operators below r is the function category -> twice its raw sum.

\* pct = (raw / sumW) * 100 is the rational PctNum / PctDen
PctNum(r, cat) == r[cat] * 100
PctDen(cat) == 2 * sumW(cat)

\* weighted = pct * (overallWeights[cat] / 100) is the rational WeightedNum / PctDen
WeightedNum(r, cat) == r[cat] * overallWeights[cat]

\* the common denominator of the four weighted contributions
OverallDen == PctDen("technical_seo") * PctDen("onpage_seo") * PctDen("entity_trust") * PctDen("hygiene")

\* mutant of OverallNum: sums the rounded category scores instead of the raw ones
OverallNumOfRoundedScores(r) ==
    SumOver(DOMAIN overallWeights,
            [c \in DOMAIN overallWeights |->
                MathRound(PctNum(r, c), PctDen(c)) * (overallWeights[c] \div 5)
                    * (OverallDen \div 20)])

\* overall += weighted, over the categories: the rational OverallNum / OverallDen
OverallNum(r) ==
    SumOver(DOMAIN overallWeights,
            [c \in DOMAIN overallWeights |-> WeightedNum(r, c) * (OverallDen \div PctDen(c))])

\* grade = overall >= 90 ? 'A' : ... on the unrounded overall num / OverallDen
Grade(num) ==
    IF num >= 90 * OverallDen THEN "A"
    ELSE IF num >= 80 * OverallDen THEN "B"
    ELSE IF num >= 70 * OverallDen THEN "C"
    ELSE IF num >= 60 * OverallDen THEN "D"
    ELSE "F"

\* mutant of CategoryEntry: normalises by the weights of all categories
CategoryEntryAllWeights(r, cat) ==
    [id |-> cat,
     score |-> MathRound(100 * SumOver(DOMAIN weights, r),
                         2 * SumOver(DOMAIN weights, [c \in DOMAIN weights |-> sumW(c)])),
     weighted |-> MathRound(WeightedNum(r, cat), PctDen(cat))]

\* out.push({ id: cat, score: Math.round(pct), weighted: Math.round(weighted) })
CategoryEntry(r, cat) ==
    [id |-> cat,
     score |-> MathRound(PctNum(r, cat), PctDen(cat)),
     weighted |-> MathRound(WeightedNum(r, cat), PctDen(cat))]

scoreCategories(iss) ==
    LET r == [c \in DOMAIN weights |-> raw2(iss, c)]
        overall == OverallNum(r)
    IN  [overall |-> MathRound(overall, OverallDen),
         grade |-> Grade(overall),
         categories |-> [k \in 1..Len(categories) |-> CategoryEntry(r, categories[k])]]

-----------------------------------------------------------------------------
(* On-page checks *)

ogRequired == {"og:title", "og:description", "og:image"}

\* tl>=15&&tl<=60 ? 'pass' : (tl>=8&&tl<=70 ? 'warn' : 'fail')
titleStatus(tl) ==
    IF tl >= 15 /\ tl <= 60 THEN "pass" ELSE IF tl >= 8 /\ tl <= 70 THEN "warn" ELSE "fail"

\* mdl===0 ? 'fail' : (mdl<70||mdl>160 ? 'warn' : 'pass')
mdStatus(mdl) ==
    IF mdl = 0 THEN "fail" ELSE IF mdl < 70 \/ mdl > 160 THEN "warn" ELSE "pass"

\* hMatches.filter(h => h==='H1').length
h1Count(hMatches) == Cardinality({i \in 1..Len(hMatches) : hMatches[i] = 1})

\* h1Count===1 ? 'pass' : h1Count===0 ? 'fail' : 'warn'
h1Status(hMatches) ==
    IF h1Count(hMatches) = 1 THEN "pass" ELSE IF h1Count(hMatches) = 0 THEN "fail" ELSE "warn"

\* mutant of hierarchyOk: the first heading is compared with level 0, so a
\* page has to open with an H1
hierarchyOkFromTop(hMatches) ==
    \A i \in 1..Len(hMatches) : hMatches[i] - (IF i = 1 THEN 0 ELSE hMatches[i - 1]) <= 1

\* hMatches.every((h,i,arr) => i===0 || level(arr[i]) - level(arr[i-1]) <= 1)
hierarchyOk(hMatches) ==
    \A i \in 1..Len(hMatches) : i = 1 \/ hMatches[i] - hMatches[i - 1] <= 1

\* !canonical ? 'warn' : canonical.startsWith(url) ? 'pass' : 'warn'
canonicalStatus(canonical) ==
    IF canonical = "absent" THEN "warn" ELSE IF canonical = "self" THEN "pass" ELSE "warn"

\* forbids.test(robotsMeta) || forbids.test(robotsHeader) ? 'fail' : 'pass'
robotsStatus(p) == IF p.robotsMetaForbids \/ p.robotsHeaderForbids THEN "fail" ELSE "pass"

\* missingOg.length ? (missingOg.length===ogRequired.length ? 'fail' : 'warn') : 'pass'
ogStatus(ogPresent) ==
    LET missingOg == ogRequired \ ogPresent
    IN  IF missingOg # {}
        THEN (IF Cardinality(missingOg) = Cardinality(ogRequired) THEN "fail" ELSE "warn")
        ELSE "pass"

\* httpAssets===0 ? 'pass' : (httpAssets<3 ? 'warn' : 'fail')
mixedStatus(httpAssets) ==
    IF httpAssets = 0 THEN "pass" ELSE IF httpAssets < 3 THEN "warn" ELSE "fail"

CountImgs(imgs, field) == Cardinality({i \in 1..Len(imgs) : imgs[i][field]})

\* missingRatio = imgCount ? imgNoAlt/imgCount : 0;
\* missingRatio<=0.1 ? 'pass' : (missingRatio<=0.3 ? 'warn' : 'fail')
imageAltStatus(imgs) ==
    LET imgCount == Len(imgs)
        imgNoAlt == imgCount - CountImgs(imgs, "alt")
    IN  IF imgCount = 0 THEN "pass"
        ELSE IF 10 * imgNoAlt <= imgCount THEN "pass"
        ELSE IF 10 * imgNoAlt <= 3 * imgCount THEN "warn" ELSE "fail"

\* image_lazy with the ratio of a page without images taken as 1
imageLazyStatusNoImagesPass(imgs) ==
    LET imgCount == Len(imgs)
        lazyCount == CountImgs(imgs, "lazy")
    IN  IF imgCount = 0 THEN "pass"
        ELSE IF 10 * lazyCount >= 8 * imgCount THEN "pass"
        ELSE IF 10 * lazyCount >= 5 * imgCount THEN "warn" ELSE "fail"

\* lazyRatio = imgCount ? lazyCount/imgCount : 0;
\* lazyRatio>=0.8 ? 'pass' : (lazyRatio>=0.5 ? 'warn' : 'fail')
imageLazyStatus(imgs) ==
    LET imgCount == Len(imgs)
        lazyCount == CountImgs(imgs, "lazy")
    IN  IF imgCount = 0 THEN "fail"
        ELSE IF 10 * lazyCount >= 8 * imgCount THEN "pass"
        ELSE IF 10 * lazyCount >= 5 * imgCount THEN "warn" ELSE "fail"

\* descRatio = imgCount ? descriptive/imgCount : 1;
\* descRatio>=0.5 ? 'pass' : (descRatio>=0.3 ? 'warn' : 'fail')
imageFilenameStatus(imgs) ==
    LET imgCount == Len(imgs)
        descriptive == CountImgs(imgs, "descriptive")
    IN  IF imgCount = 0 THEN "pass"
        ELSE IF 10 * descriptive >= 5 * imgCount THEN "pass"
        ELSE IF 10 * descriptive >= 3 * imgCount THEN "warn" ELSE "fail"

\* internal: the anchor texts (lower-cased, "" when empty) of the same-origin links;
\* (minLinks>=5 && anchorDiversity>=0.4) ? 'pass' : (minLinks>=3 ? 'warn' : 'fail')
internalLinksStatus(internal) ==
    LET minLinks == Len(internal)
        texts == {i \in 1..Len(internal) : internal[i] # ""}
        uniqueAnchors == Cardinality({internal[i] : i \in texts})
        diverse == IF Cardinality(texts) = 0 THEN TRUE
                   ELSE 10 * uniqueAnchors >= 4 * Cardinality(texts)
    IN  IF minLinks >= 5 /\ diverse THEN "pass" ELSE IF minLinks >= 3 THEN "warn" ELSE "fail"

\* words>=300 ? 'pass' : (words>=200 ? 'warn' : 'fail')
wordCountStatus(words) ==
    IF words >= 300 THEN "pass" ELSE IF words >= 200 THEN "warn" ELSE "fail"

\* flag ? 'pass' : 'warn'
presenceStatus(flag) == IF flag THEN "pass" ELSE "warn"

\* issues.push({ id, status, ..., category })
Issue(id, status, category) == [id |-> id, status |-> status, category |-> category]

\* lines 146-183: title .. mixed content
HeadIssues(p) ==
    << Issue("title_tag", titleStatus(p.tl), "onpage_seo"),
       Issue("meta_description", mdStatus(p.mdl), "onpage_seo"),
       Issue("viewport_meta", IF p.hasViewport THEN "pass" ELSE "fail", "technical_seo"),
       Issue("h1_tag", h1Status(p.hMatches), "onpage_seo"),
       Issue("heading_hierarchy", IF hierarchyOk(p.hMatches) THEN "pass" ELSE "warn", "onpage_seo"),
       Issue("canonical_tag", canonicalStatus(p.canonical), "technical_seo"),
       Issue("meta_robots", robotsStatus(p), "technical_seo"),
       Issue("open_graph", ogStatus(p.ogPresent), "entity_trust"),
       Issue("https_mixed_content", mixedStatus(p.httpAssets), "technical_seo") >>

\* mutant of ImageIssues: the image checks are skipped on a page without images
ImageIssuesOnlyWithImages(p) ==
    IF Len(p.imgs) = 0 THEN << >>
    ELSE << Issue("image_alt", imageAltStatus(p.imgs), "onpage_seo"),
            Issue("image_lazy", imageLazyStatus(p.imgs), "onpage_seo"),
            Issue("image_filename", imageFilenameStatus(p.imgs), "onpage_seo") >>

\* lines 185-193: the three image checks
ImageIssues(p) ==
    << Issue("image_alt", imageAltStatus(p.imgs), "onpage_seo"),
       Issue("image_lazy", imageLazyStatus(p.imgs), "onpage_seo"),
       Issue("image_filename", imageFilenameStatus(p.imgs), "onpage_seo") >>

\* lines 195-237: internal links .. hygiene
TailIssues(p) ==
    << Issue("internal_links", internalLinksStatus(p.internal), "onpage_seo"),
       Issue("publish_date", presenceStatus(p.dateMeta \/ p.timeTag), "onpage_seo"),
       Issue("word_count", wordCountStatus(p.words), "onpage_seo"),
       Issue("entity_schema_org", presenceStatus(p.hasOrgSchema), "entity_trust"),
       Issue("entity_nap", presenceStatus(p.hasTel \/ p.hasAddress), "entity_trust"),
       Issue("entity_social_profiles", presenceStatus(p.hasSocial), "entity_trust"),
       Issue("hygiene_favicon", presenceStatus(p.hasFavicon), "hygiene"),
       Issue("hygiene_manifest", presenceStatus(p.hasManifest), "hygiene"),
       Issue("hygiene_charset", presenceStatus(p.hasCharset), "hygiene"),
       Issue("hygiene_html_lang", presenceStatus(p.hasHtmlLang), "hygiene"),
       Issue("hygiene_copyright_year", presenceStatus(p.hasCopyrightThisYear), "hygiene") >>

\* the issues in the order they are pushed
evaluateHome(p) == HeadIssues(p) \o ImageIssues(p) \o TailIssues(p)

-----------------------------------------------------------------------------
(* Pages and issue lists the pure functions are exercised on *)

SeqsUpTo(S, n) == UNION {[1..k -> S] : k \in 0..n}

\* A JSON value as the code looks at it: an object with the strings of its
\* "@type" property (none, one, or an array of them) and the values of its
\* other properties in key order, an array with its elements, or anything else
Lit == [kind |-> "lit", types |-> << >>, kids |-> << >>]
Obj(types, kids) == [kind |-> "obj", types |-> types, kids |-> kids]
Arr(kids) == [kind |-> "arr", types |-> << >>, kids |-> kids]

\* a <script type="application/ld+json"> block of the page: does its text
\* parse (JSON.parse(m[1].trim())), and the value it parses to
Block(ok, json) == [ok |-> ok, json |-> json]

\* a page on which every check passes
DefaultPage ==
    [tl |-> 30, mdl |-> 100, hasViewport |-> TRUE, hMatches |-> <<1, 2>>,
     canonical |-> "self", robotsMetaForbids |-> FALSE, robotsHeaderForbids |-> FALSE,
     ogPresent |-> ogRequired, httpAssets |-> 0,
     imgs |-> << [alt |-> TRUE, lazy |-> TRUE, descriptive |-> TRUE] >>,
     internal |-> <<"a", "b", "c", "d", "e">>,
     dateMeta |-> TRUE, timeTag |-> FALSE, words |-> 300,
     hasOrgSchema |-> TRUE, hasTel |-> TRUE, hasAddress |-> FALSE, hasSocial |-> TRUE,
     hasFavicon |-> TRUE, hasManifest |-> TRUE, hasCharset |-> TRUE, hasHtmlLang |-> TRUE,
     hasCopyrightThisYear |-> TRUE,
     blocks |-> <<Block(TRUE, Obj(<<"Organization">>, <<Lit>>))>>]

\* a page with nothing on it: every measurement takes its emptiest value
EmptyPage ==
    [tl |-> 0, mdl |-> 0, hasViewport |-> FALSE, hMatches |-> << >>,
     canonical |-> "absent", robotsMetaForbids |-> FALSE, robotsHeaderForbids |-> FALSE,
     ogPresent |-> {}, httpAssets |-> 0, imgs |-> << >>, internal |-> << >>,
     dateMeta |-> FALSE, timeTag |-> FALSE, words |-> 0,
     hasOrgSchema |-> FALSE, hasTel |-> FALSE, hasAddress |-> FALSE, hasSocial |-> FALSE,
     hasFavicon |-> FALSE, hasManifest |-> FALSE, hasCharset |-> FALSE, hasHtmlLang |-> FALSE,
     hasCopyrightThisYear |-> FALSE, blocks |-> << >>]

TitleLengths == {0, 7, 8, 14, 15, 60, 61, 70, 71}
DescriptionLengths == {0, 69, 70, 160, 161}
WordCounts == {0, 199, 200, 299, 300}
ImgTags == [alt : BOOLEAN, lazy : BOOLEAN, descriptive : BOOLEAN]

\* the pages: each family varies one group of measurements of a base page
PagesFrom(base) ==
    {[base EXCEPT !.tl = t, !.mdl = m, !.hasViewport = v] :
        t \in TitleLengths, m \in DescriptionLengths, v \in BOOLEAN}
    \cup {[base EXCEPT !.hMatches = h] : h \in SeqsUpTo(1..6, MaxHeadings)}
    \cup {[base EXCEPT !.canonical = c, !.robotsMetaForbids = rm, !.robotsHeaderForbids = rh,
                       !.ogPresent = og, !.httpAssets = n] :
            c \in {"absent", "self", "other"}, rm \in BOOLEAN, rh \in BOOLEAN,
            og \in SUBSET ogRequired, n \in 0..3}
    \cup {[base EXCEPT !.imgs = im] : im \in SeqsUpTo(ImgTags, MaxImages)}
    \cup {[base EXCEPT !.internal = l] : l \in SeqsUpTo({"", "a", "b"}, 5)}
    \cup {[base EXCEPT !.dateMeta = d, !.timeTag = t, !.words = w] :
            d \in BOOLEAN, t \in BOOLEAN, w \in WordCounts}
    \cup {[base EXCEPT !.hasOrgSchema = a, !.hasTel = b, !.hasAddress = c, !.hasSocial = d] :
            a \in BOOLEAN, b \in BOOLEAN, c \in BOOLEAN, d \in BOOLEAN}
    \cup {[base EXCEPT !.hasFavicon = a, !.hasManifest = b, !.hasCharset = c,
                       !.hasHtmlLang = d, !.hasCopyrightThisYear = e] :
            a \in BOOLEAN, b \in BOOLEAN, c \in BOOLEAN, d \in BOOLEAN, e \in BOOLEAN}

Pages == PagesFrom(DefaultPage) \cup PagesFrom(EmptyPage)

\* the issue list of a page with every status replaced by s
UniformIssues(s) ==
    LET iss == evaluateHome(DefaultPage)
    IN  [k \in 1..Len(iss) |-> [iss[k] EXCEPT !.status = s]]

\* the issue lists scoring starts from: all pass, all warn, all fail, an empty
\* list, and a list that carries one id twice
BaseIssueLists ==
    {UniformIssues(s) : s \in Status}
    \cup {<< >>, Append(UniformIssues("pass"), Issue("title_tag", "fail", "onpage_seo"))}

\* the check ids in the order evaluateHome pushes their issues
CheckOrder ==
    << "title_tag", "meta_description", "viewport_meta", "h1_tag", "heading_hierarchy",
       "canonical_tag", "meta_robots", "open_graph", "https_mixed_content", "image_alt",
       "image_lazy", "image_filename", "internal_links", "publish_date", "word_count",
       "entity_schema_org", "entity_nap", "entity_social_profiles", "hygiene_favicon",
       "hygiene_manifest", "hygiene_charset", "hygiene_html_lang", "hygiene_copyright_year" >>

CategoryOf(id) == CHOOSE c \in DOMAIN weights : id \in DOMAIN weights[c]

\* iss with the status of check id set to s (the issue is added when iss has none)
WithStatus(iss, id, s) ==
    IF \E i \in 1..Len(iss) : iss[i].id = id
    THEN [i \in 1..Len(iss) |-> IF iss[i].id = id THEN [iss[i] EXCEPT !.status = s] ELSE iss[i]]
    ELSE Append(iss, Issue(id, s, CategoryOf(id)))

-----------------------------------------------------------------------------
(* SpecEval: evaluateHome applied to a page *)

evalVars == <<page, evaluated>>
scoreVars == <<issues, scored, rescored, lastChanged>>

postVars == <<body, env, hpc, dedup, audits, webhook, response, faults>>
ldVars == <<html, jsonld, schema>>
contactVars == <<crawled, found>>

IdleEval == page = None /\ evaluated = None
IdleScore == issues = << >> /\ scored = None /\ rescored = 0 /\ lastChanged = 0
IdlePost ==
    /\ body = None /\ env = None /\ hpc = "idle" /\ dedup = << >> /\ audits = << >>
    /\ webhook = "unsent" /\ response = None /\ faults = 0

IdleLd == html = << >> /\ jsonld = None /\ schema = None
IdleContacts == crawled = << >> /\ found = None

InitEval == page \in {Some(p) : p \in Pages} /\ evaluated = None /\ IdleScore /\ IdlePost /\ IdleLd /\ IdleContacts

\* const baseIssues = evaluateHome(home.text, home.headers, origin)
EvaluatePage ==
    /\ page # None
    /\ evaluated = None
    /\ evaluated' = Some(evaluateHome(page[1]))
    /\ UNCHANGED <<page, scoreVars, postVars, ldVars, contactVars>>

NextEval == EvaluatePage

SpecEval == InitEval /\ [][NextEval]_vars

-----------------------------------------------------------------------------
(* SpecScore: scoreCategories applied to an issue list and to its neighbours *)

InitScore ==
    /\ issues \in BaseIssueLists /\ scored = None /\ rescored = 0 /\ lastChanged = 0
    /\ IdleEval /\ IdlePost /\ IdleLd /\ IdleContacts

\* const scored = scoreCategories(baseIssues)
ScoreIssues ==
    /\ scored = None
    /\ scored' = Some(scoreCategories(issues))
    /\ UNCHANGED <<issues, rescored, lastChanged, evalVars, postVars, ldVars, contactVars>>

\* scoreCategories on the list that differs in the status of one check; the
\* checks are changed in catalogue order, so that each list is scored once
ScoreNeighbour(k, s) ==
    /\ scored # None
    /\ rescored < MaxChanges
    /\ k > lastChanged
    /\ lastChanged' = k
    /\ byIdStatus(issues, CheckOrder[k]) # s
            \/ ~(\E i \in 1..Len(issues) : issues[i].id = CheckOrder[k])
    /\ issues' = WithStatus(issues, CheckOrder[k], s)
    /\ scored' = Some(scoreCategories(issues'))
    /\ rescored' = rescored + 1
    /\ UNCHANGED <<evalVars, postVars, ldVars, contactVars>>

NextScore ==
    \/ ScoreIssues
    \/ \E k \in 1..Len(CheckOrder), s \in Status : ScoreNeighbour(k, s)

SpecScore == InitScore /\ [][NextScore]_vars

-----------------------------------------------------------------------------
(* URL normalisation *)

\* A submitted URL string: its scheme ("" when the string does not start with
\* http), its host (site n; 0 when the string has no host and does not parse),
\* whether the host is written in upper case, and its path
RawUrl(scheme, host, upper, path) ==
    [scheme |-> scheme, host |-> host, upper |-> upper, path |-> path]

\* new URL(input.startsWith("http") ? input : `https://${input}`) throws
Unparsable(raw) == raw.host = 0

\* new URL(u.origin).toString(): the scheme defaulted to https, the host
\* lower-cased by the URL parser, the path dropped
normaliseOrigin(raw) ==
    [scheme |-> IF raw.scheme = "" THEN "https" ELSE raw.scheme, host |-> raw.host]

\* the cap of .slice(0, 10)
MaxBatch == 10

RECURSIVE FirstSeen(_, _)
\* Array.from(new Set(list)): the distinct elements in first-seen order
FirstSeen(list, seen) ==
    IF list = << >> THEN << >>
    ELSE IF Head(list) \in seen THEN FirstSeen(Tail(list), seen)
    ELSE <<Head(list)>> \o FirstSeen(Tail(list), seen \cup {Head(list)})

\* mutant of Dedup: the list is capped without removing repeated origins
DedupKeepsAll(list) ==
    SubSeq(list, 1, IF Len(list) < MaxBatch THEN Len(list) ELSE MaxBatch)

\* Array.from(new Set(list.filter(Boolean))).slice(0, 10); an origin string is
\* never empty, so the filter keeps everything
Dedup(list) ==
    LET d == FirstSeen(list, {})
    IN  SubSeq(d, 1, IF Len(d) < MaxBatch THEN Len(d) ELSE MaxBatch)

-----------------------------------------------------------------------------
(* Structured data: extractJsonLd, extractSchemaTypes and the suggestions *)

RECURSIVE ExtractFrom(_, _)
\* the while loop of extractJsonLd with out so far: a block whose text does
\* not parse is skipped by the empty catch, an array is spread into out, any
\* other value is pushed
ExtractFrom(blocks, out) ==
    IF blocks = << >> THEN out
    ELSE LET b == Head(blocks)
         IN  ExtractFrom(Tail(blocks),
                         IF ~b.ok THEN out
                         ELSE IF b.json.kind = "arr" THEN out \o b.json.kids
                         ELSE Append(out, b.json))

\* mutant of extractJsonLd: JSON.parse is not inside a try, so one block that
\* does not parse loses the whole extraction
extractJsonLdUncaught(blocks) ==
    IF \E k \in 1..Len(blocks) : ~blocks[k].ok THEN << >> ELSE ExtractFrom(blocks, << >>)

extractJsonLd(blocks) == ExtractFrom(blocks, << >>)

RECURSIVE Walk(_)
\* walk of extractSchemaTypes: the types of the value, then those of its
\* property values or elements, depth first
Walk(v) ==
    IF v.kind = "lit" THEN << >>
    ELSE LET RECURSIVE Kids(_)
             Kids(k) == IF k > Len(v.kids) THEN << >> ELSE Walk(v.kids[k]) \o Kids(k + 1)
         IN  v.types \o Kids(1)

RECURSIVE WalkAll(_)
\* for (const item of jsonld) walk(item)
WalkAll(items) == IF items = << >> THEN << >> ELSE Walk(Head(items)) \o WalkAll(Tail(items))

\* [...new Set(arr)]
unique(arr) == FirstSeen(arr, {})

extractSchemaTypes(items) == unique(WalkAll(items))

RECOMMENDED_SCHEMA ==
    <<"Organization", "LocalBusiness", "Service", "Product", "FAQPage", "HowTo", "VideoObject",
      "Review", "BreadcrumbList", "Article", "BlogPosting", "WebSite", "WebPage">>

\* the cap of .slice(0,10)
maxSuggestions == 10

\* mutant of Suggestions: the recommended types are not filtered by the
\* detected ones
SuggestionsUnfiltered(detectedTypes) ==
    SubSeq(RECOMMENDED_SCHEMA, 1, maxSuggestions)

\* RECOMMENDED_SCHEMA.filter(t => !detectedTypes.includes(t)).slice(0,10)
Suggestions(detectedTypes) ==
    LET missing == SelectSeq(RECOMMENDED_SCHEMA,
                             LAMBDA t : ~(\E k \in 1..Len(detectedTypes) : detectedTypes[k] = t))
    IN  SubSeq(missing, 1, IF Len(missing) < maxSuggestions THEN Len(missing) ELSE maxSuggestions)

\* schema: { detectedTypes, suggestions } of auditOne
SchemaOf(items) ==
    [detectedTypes |-> extractSchemaTypes(items),
     suggestions |-> Suggestions(extractSchemaTypes(items))]

\* the values the blocks parse to: plain objects with one type or an array of
\* types, an object whose types are nested below it, arrays of objects, an
\* empty array, an array inside an array, and a non-object
JsonValues ==
    {Lit,
     Obj(<<"Organization">>, <<Lit>>),
     Obj(<<"Person">>, << >>),
     Obj(<<"LocalBusiness", "Organization">>, << >>),
     Obj(<< >>, <<Lit, Obj(<<"Product">>, <<Lit>>)>>),
     Obj(<<"WebSite">>, <<Arr(<<Obj(<<"Service">>, << >>), Obj(<<"FAQPage">>, << >>)>>)>>),
     Arr(<<Obj(<<"Article">>, << >>), Obj(<<"Organization">>, << >>)>>),
     Arr(<< >>),
     Arr(<<Arr(<<Obj(<<"HowTo">>, << >>)>>), Lit>>)}

\* the blocks of a page: one per value, and one whose text does not parse
Blocks == {Block(TRUE, v) : v \in JsonValues} \cup {Block(FALSE, Lit)}

(* SpecJsonLd: extractJsonLd on the blocks of a page, then the schema types *)

InitLd ==
    /\ html \in SeqsUpTo(Blocks, MaxBlocks) /\ jsonld = None /\ schema = None
    /\ IdleEval /\ IdleScore /\ IdlePost /\ IdleContacts

\* const jsonld = extractJsonLd(home.text)
ExtractJsonLd ==
    /\ jsonld = None
    /\ jsonld' = Some(extractJsonLd(html))
    /\ UNCHANGED <<html, schema, evalVars, scoreVars, postVars, contactVars>>

\* const detectedTypes = extractSchemaTypes(jsonld); const suggestions = ...
CompareSchema ==
    /\ jsonld # None /\ schema = None
    /\ schema' = Some(SchemaOf(jsonld[1]))
    /\ UNCHANGED <<html, jsonld, evalVars, scoreVars, postVars, contactVars>>

NextLd == ExtractJsonLd \/ CompareSchema

SpecJsonLd == InitLd /\ [][NextLd]_vars

-----------------------------------------------------------------------------
(* Contact discovery: EMAIL_RE, deobfuscateEmail and discoverContacts *)

\* The tag-stripped body text of a page is a sequence of tokens: a word (a run
\* of two or more letters), a run of digits that reads as a phone number, one
\* white-space character, or one of the marks below
Marks == {" ", "@", "[at]", "[dot]", ".", ","}
Digits == {"01632 960123"}
IsWord(t) == t \notin Marks \cup Digits

\* [a-z0-9._%+-] and [a-z0-9.-] with the i flag: the tokens made of such characters
InClass(t) == IsWord(t) \/ t \in Digits \/ t = "."

\* the last place of the run of class tokens that starts at place p
RunEnd(text, p) ==
    CHOOSE e \in p..Len(text) :
        /\ \A k \in p..e : InClass(text[k])
        /\ e = Len(text) \/ ~InClass(text[e + 1])

\* ([a-z0-9.-]+\.[a-z]{2,}) on the run text[p..e], greedy: the places j of a
\* dot that has something before it in the run and letters after it
DomainDots(text, p, e) == {j \in (p + 1)..(e - 1) : text[j] = "." /\ IsWord(text[j + 1])}

\* place p skipping the one optional white-space character of \s?
SkipSpace(text, p) == IF p <= Len(text) /\ text[p] = " " THEN p + 1 ELSE p

\* EMAIL_RE tried at place p: no match, or the two groups and the place after
\* the match.  Group 1 is the whole run of class tokens at p, then \s?, the
\* marker [at] or @, \s?, and group 2 up to the letters after the last dot of
\* the run that follows
MatchAt(text, p) ==
    IF ~InClass(text[p]) THEN None
    ELSE LET e1 == RunEnd(text, p)
             m == SkipSpace(text, e1 + 1)
             d == SkipSpace(text, m + 1)
         IN  IF m > Len(text) \/ text[m] \notin {"[at]", "@"} THEN None
             ELSE IF d > Len(text) \/ ~InClass(text[d]) THEN None
             ELSE LET dots == DomainDots(text, d, RunEnd(text, d))
                  IN  IF dots = {} THEN None
                      ELSE LET j == CHOOSE x \in dots : \A y \in dots : y <= x
                           IN  Some([g1 |-> SubSeq(text, p, e1), g2 |-> SubSeq(text, d, j + 1),
                                     next |-> j + 2])

RECURSIVE MatchAll(_, _)
\* body.matchAll(EMAIL_RE) from place p on: the matches from left to right,
\* each search starting where the match before it ended
MatchAll(text, p) ==
    IF p > Len(text) THEN << >>
    ELSE IF MatchAt(text, p) = None THEN MatchAll(text, p + 1)
    ELSE <<MatchAt(text, p)[1]>> \o MatchAll(text, MatchAt(text, p)[1].next)

RECURSIVE ReplaceMarker(_, _, _, _)
\* str.replace(/\s?\[mark\]\s?/, by): the marker with the white space next to
\* it replaced, the first occurrence only or every one (the g flag)
ReplaceMarker(str, mark, by, all) ==
    IF str = << >> THEN << >>
    ELSE LET at == IF Head(str) = " " /\ Len(str) > 1 /\ str[2] = mark THEN 2
                   ELSE IF Head(str) = mark THEN 1 ELSE 0
             rest == SubSeq(str, SkipSpace(str, at + 1), Len(str))
         IN  IF at = 0 THEN <<Head(str)>> \o ReplaceMarker(Tail(str), mark, by, all)
             ELSE <<by>> \o (IF all THEN ReplaceMarker(rest, mark, by, all) ELSE rest)

\* str.replace(/\s?\[at\]\s?/i, "@").replace(/\s?\[dot\]\s?/ig, ".")
deobfuscateEmail(str) == ReplaceMarker(ReplaceMarker(str, "[at]", "@", FALSE), "[dot]", ".", TRUE)

\* toLowerCase on a token
Lower(t) == CASE t = "JANE" -> "jane" [] t = "Example" -> "example" [] OTHER -> t

toLowerCase(str) == [k \in 1..Len(str) |-> Lower(str[k])]

Contact(type, value, sourceUrl, confidence) ==
    [type |-> type, value |-> value, sourceUrl |-> sourceUrl, confidence |-> confidence]

\* An <a href>: its scheme, the host names it contains, whether it ends in
\* .vcf, and its text after the scheme
Href(scheme, has, vcf, rest) == [scheme |-> scheme, has |-> has, vcf |-> vcf, rest |-> rest]

\* the whole href
Whole(href) == <<href.scheme, ":">> \o href.rest

\* the contacts one <a href> pushes (the ifs are not exclusive); confidences
\* are in hundredths
LinkContacts(href, url) ==
    (IF href.scheme = "mailto" THEN <<Contact("email", href.rest, url, 90)>> ELSE << >>)
    \o (IF href.scheme = "tel" THEN <<Contact("phone", href.rest, url, 80)>> ELSE << >>)
    \o (IF "linkedin.com" \in href.has THEN <<Contact("linkedin", Whole(href), url, 70)>> ELSE << >>)
    \o (IF "calendly.com" \in href.has THEN <<Contact("calendly", Whole(href), url, 85)>> ELSE << >>)
    \o (IF href.vcf THEN <<Contact("vcard", Whole(href), url, 85)>> ELSE << >>)

\* the contacts a contactPoint c of an Organization record pushes; a property
\* that is missing is the empty text
PointContacts(c, url) ==
    (IF c.email # << >> THEN <<Contact("email", c.email, url, 85)>> ELSE << >>)
    \o (IF c.telephone # << >> THEN <<Contact("phone", c.telephone, url, 80)>> ELSE << >>)

RECURSIVE Concat(_)
\* the pushes of a loop, one sequence per round, in order
Concat(seqs) == IF seqs = << >> THEN << >> ELSE Head(seqs) \o Concat(Tail(seqs))

\* the email contact of one match of EMAIL_RE
MatchContact(e, url) ==
    <<Contact("email", toLowerCase(deobfuscateEmail(e.g1 \o <<"@">> \o e.g2)), url, 60)>>

\* the phone contact of one match of PHONE_RE
PhoneContact(t, url) == IF t \in Digits THEN <<Contact("phone", <<t>>, url, 50)>> ELSE << >>

\* the body of the loop over pages: links, body emails, body phones, then the
\* contact points of the page's Organization records
PageContacts(pg) ==
    LET emails == MatchAll(pg.body, 1)
    IN  Concat([k \in 1..Len(pg.links) |-> LinkContacts(pg.links[k], pg.url)])
        \o Concat([k \in 1..Len(emails) |-> MatchContact(emails[k], pg.url)])
        \o Concat([k \in 1..Len(pg.body) |-> PhoneContact(pg.body[k], pg.url)])
        \o Concat([k \in 1..Len(pg.points) |-> PointContacts(pg.points[k], pg.url)])

RECURSIVE AllContacts(_)
AllContacts(pages) ==
    IF pages = << >> THEN << >> ELSE PageContacts(Head(pages)) \o AllContacts(Tail(pages))

\* mutant of Candidates: every contact type may be the best contact
CandidatesOfAnyType(out) == out

\* out.filter(c => c.type==='email' || c.type==='calendly')
Candidates(out) == SelectSeq(out, LAMBDA c : c.type \in {"email", "calendly"})

RECURSIVE InsertByConfidence(_, _)
\* c put behind every element that the comparator (a,b) => b.confidence -
\* a.confidence does not order after it
InsertByConfidence(c, sorted) ==
    IF sorted = << >> THEN <<c>>
    ELSE IF Head(sorted).confidence >= c.confidence
         THEN <<Head(sorted)>> \o InsertByConfidence(c, Tail(sorted))
         ELSE <<c>> \o sorted

RECURSIVE SortByConfidence(_, _)
\* .sort((a,b) => b.confidence - a.confidence): Array.prototype.sort is
\* stable, so equal confidences keep their order in the array
SortByConfidence(arr, sorted) ==
    IF arr = << >> THEN sorted
    ELSE SortByConfidence(Tail(arr), InsertByConfidence(Head(arr), sorted))

\* discoverContacts: the contacts, and the best one or null (None)
discoverContacts(pages) ==
    LET out == AllContacts(pages)
        sorted == SortByConfidence(Candidates(out), << >>)
    IN  [contacts |-> out, best |-> IF sorted = << >> THEN None ELSE Some(sorted[1])]

\* a crawled page: its url, the hrefs of its links, its body text and the
\* contact points of its Organization records
CrawledPage(url, links, text, points) ==
    [url |-> url, links |-> links, body |-> text, points |-> points]

ContactPages ==
    {CrawledPage("/", << >>, << >>, << >>),
     CrawledPage("/contact", << >>,
                 <<"write", " ", "to", " ", "jane", " ", "[at]", " ", "example", " ", "[dot]",
                   " ", "com">>, << >>),
     CrawledPage("/about", << >>,
                 <<"jane", " ", "[at]", " ", "example", ".", "com", ",", " ", "01632 960123">>,
                 << >>),
     CrawledPage("/team", << >>, <<"JANE", "@", "Example", ".", "co", ".", "uk", ".">>, << >>),
     CrawledPage("/company",
                 <<Href("https", {"calendly.com"}, FALSE, <<"calendly", ".", "com">>),
                   Href("https", {}, TRUE, <<"example", ".", "com", "card", ".", "vcf">>)>>,
                 <<"sales", "@", "example", ".", "com">>, << >>),
     CrawledPage("/leadership",
                 <<Href("tel", {}, FALSE, <<"01632 960123">>),
                   Href("mailto", {}, FALSE, <<"hello", "@", "example", ".", "com">>)>>,
                 << >>, << >>),
     CrawledPage("/press",
                 <<Href("https", {"linkedin.com"}, FALSE, <<"linkedin", ".", "com">>),
                   Href("https", {}, TRUE, <<"example", ".", "com", "card", ".", "vcf">>)>>,
                 <<"press", "@", "example", ".", "com">>, << >>),
     CrawledPage("/privacy", << >>, << >>,
                 <<[email |-> <<"info", "@", "example", ".", "com">>, telephone |-> <<"01632 960123">>],
                   [email |-> << >>, telephone |-> <<"01632 960123">>]>>),
     CrawledPage("/careers", <<Href("mailto", {"calendly.com"}, TRUE, <<"x", "@", "calendly", ".", "com">>)>>,
                 << >>, << >>)}

(* SpecContacts: discoverContacts on the crawled pages *)

InitContacts ==
    /\ crawled \in SeqsUpTo(ContactPages, MaxPages) /\ found = None
    /\ IdleEval /\ IdleScore /\ IdlePost /\ IdleLd

\* const { best } = discoverContacts(pages)
DiscoverContacts ==
    /\ found = None
    /\ found' = Some(discoverContacts(crawled))
    /\ UNCHANGED <<crawled, evalVars, scoreVars, postVars, ldVars>>

NextContacts == DiscoverContacts

SpecContacts == InitContacts /\ [][NextContacts]_vars

-----------------------------------------------------------------------------
(* One origin's audit: auditOne and the functions it awaits *)

Req(kind, arg) == [kind |-> kind, arg |-> arg]

\* how a request is answered: a 2xx response (ok), a 2xx response without the
\* content looked for (okEmpty), a non-2xx response, or a network error
Outcomes == {"ok", "okEmpty", "non2xx", "throw"}

\* res.ok
ResOk(out) == out \in {"ok", "okEmpty"}

\* checkCoreFiles' targets
coreTargets ==
    << [key |-> "robots", path |-> "/robots.txt"],
       [key |-> "sitemap", path |-> "/sitemap.xml"],
       [key |-> "llm", path |-> "/llm.txt"],
       [key |-> "llm", path |-> "/ai.txt"],
       [key |-> "llm", path |-> "/ai.json"],
       [key |-> "llm", path |-> "/.well-known/ai-plugin.json"] >>

HIGH_SIGNAL_PATHS ==
    <<"/", "/contact", "/about", "/team", "/company", "/leadership", "/press", "/privacy",
      "/careers">>

\* crawlSmall's limit = 6
crawlLimit == 6

\* HIGH_SIGNAL_PATHS.slice(0, limit)
CrawlPaths ==
    SubSeq(HIGH_SIGNAL_PATHS, 1,
           IF crawlLimit < Len(HIGH_SIGNAL_PATHS) THEN crawlLimit ELSE Len(HIGH_SIGNAL_PATHS))

\* the state of auditOne(origin, ...) once it has issued the home-page fetch:
\* st is the await it is suspended at, pending the requests in flight, sent
\* every request issued so far, the rest its local variables
NewAudit(origin) ==
    [origin |-> origin, st |-> "home", k |-> 0,
     pending |-> {Req("home", "/")}, sent |-> <<Req("home", "/")>>,
     home |-> None,
     files |-> [robots |-> "", sitemap |-> "", llm |-> ""],
     psi |-> [mobile |-> "unsent", desktop |-> "unsent"],
     mobileScore |-> "absent", desktopScore |-> "absent", topActions |-> {},
     pages |-> << >>, owners |-> "none", err |-> "", result |-> None]

\* fetch(...): the request is issued and awaited
Send(a, req) == [a EXCEPT !.pending = @ \cup {req}, !.sent = Append(@, req)]

\* the home pages a site answers with: a full page (ok) or an empty one (okEmpty)
HomePages == {DefaultPage, EmptyPage}

\* baseIssues = evaluateHome(home.text, ...) and scored = scoreCategories(baseIssues),
\* tabulated over the home pages
Evaluated ==
    [p \in HomePages |->
        [baseIssues |-> evaluateHome(p), scored |-> scoreCategories(evaluateHome(p)),
         schema |-> SchemaOf(extractJsonLd(p.blocks))]]

\* the value auditOne returns
AuditResult(a) ==
    LET baseIssues == Evaluated[a.home[1]].baseIssues
        sc == Evaluated[a.home[1]].scored
    IN  [target |-> a.origin,
         summary |-> [overall |-> sc.overall, grade |-> sc.grade],
         categories |-> sc.categories,
         issues |-> baseIssues,
         files |-> a.files,
         schema |-> Evaluated[a.home[1]].schema,
         pagespeed |-> [mobileScore |-> a.mobileScore, desktopScore |-> a.desktopScore,
                        topActions |-> a.topActions],
         ownerCandidates |-> a.owners]

\* return { target: origin, ... }
Fulfil(a) == [a EXCEPT !.st = "fulfilled", !.result = Some(AuditResult(a))]

\* an error thrown out of auditOne
Reject(a, msg) == [a EXCEPT !.st = "rejected", !.err = msg]

\* checkCoreFiles: fetch(origin + targets[k].path)
StartProbe(a, k) == Send([a EXCEPT !.st = "probe", !.k = k], Req("probe", coreTargets[k].path))

\* crawlSmall: fetch(origin + HIGH_SIGNAL_PATHS[k])
StartCrawl(a, k) == Send([a EXCEPT !.st = "crawl", !.k = k], Req("crawl", CrawlPaths[k]))

\* Promise.all([runPSI(origin,'mobile',PSI_KEY), runPSI(origin,'desktop',PSI_KEY)]):
\* without a key both calls throw before any request and the catch goes on to
\* the crawl; with a key both requests are issued
StartPSI(a, key) ==
    IF ~key
    THEN StartCrawl([a EXCEPT !.psi = [mobile |-> "nokey", desktop |-> "nokey"]], 1)
    ELSE Send(Send([a EXCEPT !.st = "psi", !.psi = [mobile |-> "pending", desktop |-> "pending"]],
                   Req("psi", "mobile")),
              Req("psi", "desktop"))

\* brandGuess: the Organization name or the first part of the title
HasBrandGuess(a) == a.home[1].hasOrgSchema \/ a.home[1].tl > 0

\* options?.enrichment ? await companiesHouseOwnerGuess(brandGuess) : [];
\* companiesHouseOwnerGuess returns [] without a request when the key or the
\* name is missing
AfterCrawl(a, cfg) ==
    IF cfg.enrichment /\ cfg.chKey /\ HasBrandGuess(a)
    THEN Send([a EXCEPT !.st = "enrich"], Req("enrich", "search"))
    ELSE Fulfil(a)

\* checkCoreFiles, on the answer to probe b.k; the fetch is not in a try block
OnProbe(b, out, cfg) ==
    IF out = "throw" THEN Reject(b, "fetch failed")
    ELSE LET c == IF ResOk(out)
                  THEN [b EXCEPT !.files[coreTargets[b.k].key] = coreTargets[b.k].path]
                  ELSE b
         IN  IF b.k < Len(coreTargets) THEN StartProbe(c, b.k + 1) ELSE StartPSI(c, cfg.key)

\* pickTopActions(lh): the titles of the audits in the answer of the call for
\* strategy which; an answer with a score carries audits of its own, one
\* without a lighthouseResult carries none
pickTopActions(res, which) == IF res = "score" THEN {which} ELSE {}

\* mutant of OnPSI: a failed performance call is not caught
OnPSIUncaught(b, which, out) ==
    LET res == IF out = "ok" THEN "score" ELSE IF out = "okEmpty" THEN "noscore" ELSE "failed"
        c == [b EXCEPT !.psi[which] = res]
    IN  IF b.st # "psi" THEN c
        ELSE IF res = "failed" THEN Reject(c, "PSI failed")
        ELSE IF "pending" \in {c.psi.mobile, c.psi.desktop} THEN c
        ELSE StartCrawl([c EXCEPT !.mobileScore = IF c.psi.mobile = "score" THEN "present" ELSE "absent",
                                  !.desktopScore = IF c.psi.desktop = "score" THEN "present" ELSE "absent",
                                  !.topActions = pickTopActions(c.psi.mobile, "mobile")
                                                    \cup pickTopActions(c.psi.desktop, "desktop")], 1)

\* mutant of OnPSI: the two calls are joined when both have settled, and the
\* answer of a call that succeeded is kept when the other failed
OnPSIKeepsPartial(b, which, out) ==
    LET res == IF out = "ok" THEN "score" ELSE IF out = "okEmpty" THEN "noscore" ELSE "failed"
        c == [b EXCEPT !.psi[which] = res]
    IN  IF b.st # "psi" THEN c
        ELSE IF "pending" \in {c.psi.mobile, c.psi.desktop} THEN c
        ELSE StartCrawl([c EXCEPT !.mobileScore = IF c.psi.mobile = "score" THEN "present" ELSE "absent",
                                  !.desktopScore = IF c.psi.desktop = "score" THEN "present" ELSE "absent",
                                  !.topActions = pickTopActions(c.psi.mobile, "mobile")
                                                    \cup pickTopActions(c.psi.desktop, "desktop")], 1)

\* runPSI and the try/catch around Promise.all, on the answer to one of the two
\* calls: the first failure settles the join and the catch leaves both scores
\* undefined; two answers set each score when it is a number
OnPSI(b, which, out) ==
    LET res == IF out = "ok" THEN "score" ELSE IF out = "okEmpty" THEN "noscore" ELSE "failed"
        c == [b EXCEPT !.psi[which] = res]
    IN  IF b.st # "psi" THEN c
        ELSE IF res = "failed" THEN StartCrawl(c, 1)
        ELSE IF "pending" \in {c.psi.mobile, c.psi.desktop} THEN c
        ELSE StartCrawl([c EXCEPT !.mobileScore = IF c.psi.mobile = "score" THEN "present" ELSE "absent",
                                  !.desktopScore = IF c.psi.desktop = "score" THEN "present" ELSE "absent",
                                  !.topActions = pickTopActions(c.psi.mobile, "mobile")
                                                    \cup pickTopActions(c.psi.desktop, "desktop")], 1)

\* mutant of OnCrawl: the crawl ends at the first page answered non-2xx
OnCrawlStopsAtMissing(b, path, out, cfg) ==
    IF out = "throw" THEN Reject(b, "fetch failed")
    ELSE IF ~ResOk(out) THEN AfterCrawl(b, cfg)
    ELSE LET c == [b EXCEPT !.pages = Append(@, path)]
         IN  IF b.k < Len(CrawlPaths) THEN StartCrawl(c, b.k + 1) ELSE AfterCrawl(c, cfg)

\* crawlSmall, on the answer to page b.k; the fetch is not in a try block
OnCrawl(b, path, out, cfg) ==
    IF out = "throw" THEN Reject(b, "fetch failed")
    ELSE LET c == IF ResOk(out) THEN [b EXCEPT !.pages = Append(@, path)] ELSE b
         IN  IF b.k < Len(CrawlPaths) THEN StartCrawl(c, b.k + 1) ELSE AfterCrawl(c, cfg)

\* companiesHouseOwnerGuess, on the answer to its search or officers request;
\* everything is inside its try block
OnEnrich(b, step, out) ==
    IF step = "search"
    THEN IF out = "ok" THEN Send(b, Req("enrich", "officers")) ELSE Fulfil(b)
    ELSE Fulfil([b EXCEPT !.owners = IF out = "ok" THEN "some" ELSE "none"])

\* mutant of OnHome: a home page that is not answered 2xx is audited as empty
OnHomeTolerant(b, out) ==
    IF out = "throw" THEN Reject(b, "fetch failed")
    ELSE StartProbe([b EXCEPT !.home = Some(IF out = "ok" THEN DefaultPage ELSE EmptyPage)], 1)

\* fetchText(origin) and `if (!home.ok) throw`, on the answer to the home fetch
OnHome(b, out) ==
    IF out = "throw" THEN Reject(b, "fetch failed")
    ELSE IF out = "non2xx" THEN Reject(b, "Failed to fetch origin")
    ELSE StartProbe([b EXCEPT !.home = Some(IF out = "ok" THEN DefaultPage ELSE EmptyPage)], 1)

\* auditOne resumed by the answer out to its request req
OnSettle(a, req, out, cfg) ==
    LET b == [a EXCEPT !.pending = @ \ {req}]
    IN  CASE req.kind = "home" -> OnHome(b, out)
          [] req.kind = "probe" -> OnProbe(b, out, cfg)
          [] req.kind = "psi" -> OnPSI(b, req.arg, out)
          [] req.kind = "crawl" -> OnCrawl(b, req.arg, out, cfg)
          [] req.kind = "enrich" -> OnEnrich(b, req.arg, out)

RECURSIVE RunOk(_, _)
\* auditOne run to its end with every remaining request answered ok
RunOk(a, cfg) ==
    IF a.pending = {} THEN a
    ELSE RunOk(OnSettle(a, CHOOSE r \in a.pending : TRUE, "ok", cfg), cfg)

-----------------------------------------------------------------------------
(* The handler: POST *)

Settled(a) == a.st \in {"fulfilled", "rejected"}

\* NextResponse.json(results.length === 1 ? results[0] : results, { status: 200 })
Respond200(results) ==
    Some([status |-> 200, kind |-> IF Len(results) = 1 THEN "single" ELSE "list",
          results |-> results, error |-> ""])

\* NextResponse.json({ error: e.message || 'Unexpected error' }, { status: 500 })
Respond500(msg) ==
    Some([status |-> 500, kind |-> "error", results |-> << >>,
          error |-> IF msg = "" THEN "Unexpected error" ELSE msg])

\* mutant of ResultsOf: the core-file record is one object shared by the
\* audits, so every result shows what the last audit recorded
ResultsOfSharedFiles(as) ==
    [i \in 1..Len(as) |-> [as[i].result[1] EXCEPT !.files = as[Len(as)].result[1].files]]

\* the results of Promise.all: the audits' values in the order of dedup
ResultsOf(as) == [i \in 1..Len(as) |-> as[i].result[1]]

\* the handler resumed after `await Promise.all(...)`, when it is at h, the
\* audits are as and audit i has just settled (0: none has): the first
\* rejection goes to the catch; once every audit is fulfilled the webhook is
\* posted when one is configured, else the response is returned
AfterJoin(h, as, i) ==
    IF h # "auditing"
    THEN [hpc |-> h, webhook |-> webhook, response |-> response]
    ELSE IF i # 0 /\ as[i].st = "rejected"
    THEN [hpc |-> "done", webhook |-> webhook, response |-> Respond500(as[i].err)]
    ELSE IF \A j \in 1..Len(as) : as[j].st = "fulfilled"
    THEN IF env.N8N
         THEN [hpc |-> "webhook", webhook |-> "pending", response |-> response]
         ELSE [hpc |-> "done", webhook |-> webhook, response |-> Respond200(ResultsOf(as))]
    ELSE [hpc |-> h, webhook |-> webhook, response |-> response]

\* input.map(normaliseOrigin)
Origins(list) == [i \in 1..Len(list) |-> normaliseOrigin(list[i])]

\* mutant of NormaliseAll: a string that does not parse is left out
NormaliseAllSkipsInvalid(urls) ==
    Some(Origins(SelectSeq(urls, LAMBDA raw : ~Unparsable(raw))))

\* Array.isArray(input) ? input.map(normaliseOrigin) : [normaliseOrigin(input)]:
\* the list of origins, or nothing when new URL throws on one of the strings
NormaliseAll(urls) ==
    IF \E k \in 1..Len(urls) : Unparsable(urls[k]) THEN None ELSE Some(Origins(urls))

\* POST up to its first await that waits: the URL strings are normalised (a
\* string that does not parse throws into the catch), deduplicated and capped,
\* and auditOne is called for each origin, which issues its home-page fetch
PostStart ==
    /\ hpc = "start"
    /\ LET list == NormaliseAll(body.urls)
       IN  IF list = None
           THEN /\ response' = Respond500("Invalid URL")
                /\ hpc' = "done"
                /\ UNCHANGED <<dedup, audits, webhook>>
           ELSE LET d == Dedup(list[1])
                    as == [i \in 1..Len(d) |-> NewAudit(d[i])]
                    j == AfterJoin("auditing", as, 0)
                IN  /\ dedup' = d
                    /\ audits' = as
                    /\ hpc' = j.hpc
                    /\ webhook' = j.webhook
                    /\ response' = j.response
    /\ UNCHANGED <<body, env, faults, evalVars, scoreVars, ldVars, contactVars>>

\* the request req of audit a has been answered
Answered(a, req) == [a EXCEPT !.pending = @ \ {req}]

\* the answer out to request req of audit i arrives: the audit runs to its
\* next await, which leaves it as a2, and the handler runs on if that
\* settles the join
Resume(i, req, out, a2) ==
    /\ out = "ok" \/ faults < MaxFaults
    /\ faults' = IF out = "ok" THEN faults ELSE faults + 1
    /\ LET as == [audits EXCEPT ![i] = a2]
           j == AfterJoin(hpc, as, IF Settled(a2) /\ ~Settled(audits[i]) THEN i ELSE 0)
       IN  /\ audits' = as
           /\ hpc' = j.hpc
           /\ webhook' = j.webhook
           /\ response' = j.response
    /\ UNCHANGED <<body, env, dedup, evalVars, scoreVars, ldVars, contactVars>>

\* how a request of each kind can be answered; an empty 2xx body is told apart
\* where the code reads the body
OutcomesOf(kind) ==
    IF kind \in {"probe", "crawl"} THEN Outcomes \ {"okEmpty"} ELSE Outcomes

\* what the audit reads of the request and of process.env
Config(chKey) == [key |-> env.PSI_KEY, enrichment |-> body.enrichment, chKey |-> chKey]

HomeSettles(i, out) ==
    \E req \in audits[i].pending :
        /\ req.kind = "home"
        /\ Resume(i, req, out, OnHome(Answered(audits[i], req), out))

ProbeSettles(i, out) ==
    \E req \in audits[i].pending :
        /\ req.kind = "probe" /\ out \in OutcomesOf("probe")
        /\ Resume(i, req, out, OnProbe(Answered(audits[i], req), out, Config(FALSE)))

PsiSettles(i, out) ==
    \E req \in audits[i].pending :
        /\ req.kind = "psi"
        /\ Resume(i, req, out, OnPSI(Answered(audits[i], req), req.arg, out))

\* process.env.COMPANIES_HOUSE_KEY is read when the crawl has ended
CrawlSettles(i, out) ==
    \E req \in audits[i].pending :
        /\ req.kind = "crawl" /\ out \in OutcomesOf("crawl")
        /\ \E chKey \in IF audits[i].k = Len(CrawlPaths) /\ body.enrichment
                        THEN BOOLEAN ELSE {FALSE} :
                Resume(i, req, out, OnCrawl(Answered(audits[i], req), req.arg, out, Config(chKey)))

EnrichSettles(i, out) ==
    \E req \in audits[i].pending :
        /\ req.kind = "enrich"
        /\ Resume(i, req, out, OnEnrich(Answered(audits[i], req), req.arg, out))

\* mutant of WebhookSettles: a webhook call that throws is not caught
WebhookSettlesUncaught(out) ==
    /\ hpc = "webhook"
    /\ webhook = "pending"
    /\ out = "ok" \/ faults < MaxFaults
    /\ faults' = IF out = "ok" THEN faults ELSE faults + 1
    /\ webhook' = out
    /\ response' = IF out = "throw" THEN Respond500("fetch failed")
                   ELSE Respond200(ResultsOf(audits))
    /\ hpc' = "done"
    /\ UNCHANGED <<body, env, dedup, audits, evalVars, scoreVars, ldVars, contactVars>>

\* the answer to the webhook request arrives (a thrown error is caught and
\* dropped): the response is returned
WebhookSettles(out) ==
    /\ hpc = "webhook"
    /\ webhook = "pending"
    /\ out = "ok" \/ faults < MaxFaults
    /\ faults' = IF out = "ok" THEN faults ELSE faults + 1
    /\ webhook' = out
    /\ response' = Respond200(ResultsOf(audits))
    /\ hpc' = "done"
    /\ UNCHANGED <<body, env, dedup, audits, evalVars, scoreVars, ldVars, contactVars>>

\* the URL strings submitted: a.com, b.com and the empty string
RawUrls == {RawUrl("", 1, FALSE, ""), RawUrl("", 2, FALSE, ""), RawUrl("", 0, FALSE, "")}

\* body.url is one string or a list of strings; body.options.enrichment
Bodies ==
    {[isList |-> FALSE, urls |-> <<r>>, enrichment |-> e] : r \in RawUrls, e \in BOOLEAN}
    \cup {[isList |-> TRUE, urls |-> l, enrichment |-> e] :
            l \in SeqsUpTo(RawUrls, MaxList), e \in BOOLEAN}

Envs == [PSI_KEY : BOOLEAN, N8N : BOOLEAN]

Init ==
    /\ body \in Bodies
    /\ env \in Envs
    /\ hpc = "start" /\ dedup = << >> /\ audits = << >>
    /\ webhook = "unsent" /\ response = None /\ faults = 0
    /\ IdleEval /\ IdleScore /\ IdleLd /\ IdleContacts

Next ==
    \/ PostStart
    \/ \E i \in 1..Len(audits), out \in Outcomes : HomeSettles(i, out)
    \/ \E i \in 1..Len(audits), out \in Outcomes : ProbeSettles(i, out)
    \/ \E i \in 1..Len(audits), out \in Outcomes : PsiSettles(i, out)
    \/ \E i \in 1..Len(audits), out \in Outcomes : CrawlSettles(i, out)
    \/ \E i \in 1..Len(audits), out \in Outcomes : EnrichSettles(i, out)
    \/ \E out \in Outcomes : WebhookSettles(out)

Spec == Init /\ [][Next]_vars

-----------------------------------------------------------------------------
(* SpecBatch: POST on long lists, each audit run from its home fetch to its end *)

\* the list of n URL strings naming sites 1..n in turn, but for the string at
\* place d, which names site 1 again, spelt in upper case and with a path
ListOf(n, d) ==
    [i \in 1..n |-> IF i = d THEN RawUrl("https", 1, TRUE, "/x") ELSE RawUrl("", i, FALSE, "")]

\* short lists with and without a repeated origin, and lists longer than
\* the cap with a repeated origin
BatchBodies ==
    {[isList |-> TRUE, urls |-> ListOf(n, d), enrichment |-> FALSE] :
        n \in 0..3, d \in {0, 3}}
    \cup {[isList |-> TRUE, urls |-> ListOf(n, 3), enrichment |-> FALSE] :
            n \in {MaxBatch + 1, LongLen}}

InitBatch ==
    /\ body \in BatchBodies
    /\ env \in {e \in Envs : e.PSI_KEY}
    /\ hpc = "start" /\ dedup = << >> /\ audits = << >>
    /\ webhook = "unsent" /\ response = None /\ faults = 0
    /\ IdleEval /\ IdleScore /\ IdleLd /\ IdleContacts

\* the origins the long lists name
BatchOrigins == {[scheme |-> "https", host |-> h] : h \in 1..LongLen}

\* auditOne(origin, options, PSI_KEY) after its home fetch is answered out,
\* every later request answered ok, tabulated over the origins, the answers
\* and whether PSI_KEY is set
AuditRun ==
    [o \in BatchOrigins, out \in {"ok", "non2xx"}, key \in BOOLEAN |->
        RunOk(OnHome(Answered(NewAudit(o), Req("home", "/")), out),
              [key |-> key, enrichment |-> FALSE, chKey |-> FALSE])]

\* the home fetch of audit i is answered; when the page is there the audit
\* runs to its end with each later request answered ok
AuditRuns(i, out) ==
    \E req \in audits[i].pending :
        /\ req.kind = "home"
        /\ Resume(i, req, out, AuditRun[audits[i].origin, out, env.PSI_KEY])

NextBatch ==
    \/ PostStart
    \/ \E i \in 1..Len(audits), out \in {"ok", "non2xx"} : AuditRuns(i, out)
    \/ \E out \in {"ok", "throw"} : WebhookSettles(out)

SpecBatch == InitBatch /\ [][NextBatch]_vars

-----------------------------------------------------------------------------
(* Claims about evaluateHome and scoreCategories *)

\* the 23 check ids of the catalogue
CatalogueIds ==
    {"title_tag", "meta_description", "viewport_meta", "h1_tag", "heading_hierarchy",
     "canonical_tag", "meta_robots", "open_graph", "https_mixed_content", "image_alt",
     "image_lazy", "image_filename", "internal_links", "publish_date", "word_count",
     "entity_schema_org", "entity_nap", "entity_social_profiles", "hygiene_favicon",
     "hygiene_manifest", "hygiene_charset", "hygiene_html_lang", "hygiene_copyright_year"}

\* C1: for every page, evaluateHome returns an issue list that holds each of
\* the 23 catalogue ids exactly once, each with status pass, warn or fail.
C1_EveryCheckExactlyOnce ==
    evaluated # None =>
        LET iss == evaluated[1]
        IN  /\ Cardinality(CatalogueIds) = 23
            /\ \A id \in CatalogueIds : Cardinality({i \in 1..Len(iss) : iss[i].id = id}) = 1
            /\ \A i \in 1..Len(iss) : iss[i].id \in CatalogueIds /\ iss[i].status \in Status

\* a page with no title, no headings and no images has been evaluated
C1_Witness ==
    /\ evaluated # None
    /\ page[1].tl = 0 /\ page[1].hMatches = << >> /\ page[1].imgs = << >>

\* the check ids whose status differs between two issue lists
DifferingIds(a, b) == {id \in CatalogueIds : byIdStatus(a, id) # byIdStatus(b, id)}

\* C2: when two scored issue lists differ only in the status of one check,
\* the score and weighted value of every category that does not weight that
\* check are the same for both lists.
C2_OtherCategoriesUnchanged ==
    [][(scored # None /\ scored' # None /\ Cardinality(DifferingIds(issues, issues')) = 1) =>
          \A k \in 1..Len(categories) :
              (DifferingIds(issues, issues') \cap DOMAIN weights[categories[k]] = {}) =>
                  scored'[1].categories[k] = scored[1].categories[k]]_vars

\* one check of an all-pass list was changed: its category lost points, the
\* other three still score 100
C2_Witness ==
    /\ scored # None /\ rescored = 1
    /\ Cardinality({k \in 1..Len(categories) : scored[1].categories[k].score = 100}) = 3
    /\ Cardinality({k \in 1..Len(categories) : scored[1].categories[k].score < 100}) = 1

\* the letter the fixed thresholds give to a reported overall score
GradeOfReported(o) ==
    IF o >= 90 THEN "A" ELSE IF o >= 80 THEN "B" ELSE IF o >= 70 THEN "C"
    ELSE IF o >= 60 THEN "D" ELSE "F"

\* C3: the grade returned is the letter the thresholds (>= 90 A, >= 80 B,
\* >= 70 C, >= 60 D, else F) give to the reported, rounded overall score.
C3_GradeOfReportedOverall ==
    scored # None => scored[1].grade = GradeOfReported(scored[1].overall)

\* C4 as stated: the reported overall is the rounded sum of the reported
\* (rounded) category scores times their shares, divided by 100.
C4_OverallFromReportedScores ==
    scored # None =>
        scored[1].overall =
            MathRound(35 * scored[1].categories[1].score + 35 * scored[1].categories[2].score
                        + 20 * scored[1].categories[3].score + 10 * scored[1].categories[4].score,
                      100)

\* the exact overall score of an issue list, times 5824 = lcm(26, 64, 20, 14):
\* 35 * t/26 + 35 * o/64 + 20 * e/20 + 10 * h/14 with t, o, e, h twice the
\* weighted status sums of the four categories
ExactOverall5824(iss) ==
    7840 * raw2(iss, "technical_seo") + 3185 * raw2(iss, "onpage_seo")
        + 5824 * raw2(iss, "entity_trust") + 4160 * raw2(iss, "hygiene")

\* C4 amended: the reported overall is the sum, over the four categories, of
\* the unrounded category percentage times its share / 100, rounded once at
\* the end (it lies within one half of that exact sum).
C4_OverallFromUnroundedPercentages ==
    scored # None =>
        /\ 2 * 5824 * scored[1].overall <= 2 * ExactOverall5824(issues) + 5824
        /\ 2 * 5824 * scored[1].overall > 2 * ExactOverall5824(issues) - 5824

\* a scored list whose reported overall differs from the one computed from
\* the reported category scores
C4_Witness ==
    /\ scored # None
    /\ scored[1].overall #
            MathRound(35 * scored[1].categories[1].score + 35 * scored[1].categories[2].score
                        + 20 * scored[1].categories[3].score + 10 * scored[1].categories[4].score,
                      100)

\* the places of a list where an element occurs for the first time
FirstPlaces(list) == {i \in 1..Len(list) : \A j \in 1..(i - 1) : list[j] # list[i]}

\* how many distinct elements a list holds up to place i
Rank(i, list) == Cardinality({j \in FirstPlaces(list) : j <= i})

\* C5: when a batch request succeeds, the audits run are those of the first 10
\* distinct normalized origins of the input in first-seen order, one audit
\* each, and the response lists their results in that order, whatever order
\* the audits completed in.
C5_ResultsInFirstSeenOrder ==
    (response # None /\ response[1].status = 200) =>
        LET list == Origins(body.urls)
            kept == {i \in FirstPlaces(list) : Rank(i, list) <= 10}
            results == response[1].results
        IN  /\ Len(audits) = Cardinality(kept)
            /\ Len(results) = Cardinality(kept)
            /\ \A i \in kept :
                /\ audits[Rank(i, list)].origin = list[i]
                /\ audits[Rank(i, list)].sent[1] = Req("home", "/")
                /\ results[Rank(i, list)].target = list[i]

\* the longest list, which names more than ten origins and whose third
\* string is a respelling of the first, was answered with the results of the
\* first ten origins
C5_Witness ==
    /\ response # None /\ response[1].status = 200
    /\ Len(body.urls) = LongLen /\ body.urls[3].host = 1 /\ body.urls[3].upper
    /\ Len(response[1].results) = 10
    /\ response[1].results[3].target = [scheme |-> "https", host |-> 4]
    /\ response[1].results[10].target = [scheme |-> "https", host |-> 11]

\* C6: when a submitted URL string does not parse, the request ends in an
\* error response with a non-success status and no request (home fetch, probe,
\* performance call, crawl, enrichment, webhook) is issued for any origin.
C6_UnparsableUrlIsErrorWithoutRequests ==
    (hpc # "start" /\ \E k \in 1..Len(body.urls) : Unparsable(body.urls[k])) =>
        /\ response # None
        /\ response[1].status = 500 /\ response[1].kind = "error"
        /\ \A i \in 1..Len(audits) : Len(audits[i].sent) = 0
        /\ webhook = "unsent"

\* a list of a good URL followed by one that does not parse has been answered
C6_Witness ==
    /\ response # None
    /\ Len(body.urls) = 2 /\ ~Unparsable(body.urls[1]) /\ Unparsable(body.urls[2])

\* C7: when the normalized, deduplicated list of origins is empty, the request
\* is answered with an error response and a non-success status.
C7_EmptyBatchIsError ==
    (response # None /\ dedup = << >>) =>
        response[1].status # 200 /\ response[1].kind = "error"

\* a response that is an error object with status 500 and no audit result
ErrorOnly(r) ==
    r # None /\ r[1].status = 500 /\ r[1].kind = "error" /\ r[1].results = << >>

\* C8: when the home-page fetch of an origin of the batch is answered non-2xx
\* or throws, the response of the request is a single error object with status
\* 500 and no audit result, however the other audits fare and whenever they
\* settle; a response once given does not change.
C8_HomeFailureFailsBatch ==
    [][/\ \A i \in 1..Len(audits) : \A out \in {"non2xx", "throw"} :
            HomeSettles(i, out) => ErrorOnly(response')
       /\ response # None => response' = response]_vars

\* one origin's home fetch failed after another origin's audit had returned
\* its result, and the response is the error
C8_Witness ==
    /\ ErrorOnly(response)
    /\ \E i, j \in 1..Len(audits) :
        /\ audits[i].st = "rejected" /\ audits[i].home = None
        /\ audits[j].st = "fulfilled"

\* C9: once the home page is fetched, a core-file probe or crawl fetch that is
\* answered non-2xx or that throws never makes the audit fail.
C9_ProbeOrCrawlFailureTolerated ==
    [][\A i \in 1..Len(audits) : \A out \in {"non2xx", "throw"} :
            (ProbeSettles(i, out) \/ CrawlSettles(i, out)) => audits'[i].st # "rejected"]_vars

\* neither performance score is set
NoScores(a) == a.mobileScore = "absent" /\ a.desktopScore = "absent"

\* C10: a missing performance-service key, or a performance call answered
\* non-2xx or with a thrown error, never fails the audit: the audit goes on to
\* the crawl with both scores absent, and the result it returns has both
\* performance score fields absent.
C10_PsiFailureTolerated ==
    [][\A i \in 1..Len(audits) :
        /\ \A out \in {"non2xx", "throw"} :
                (PsiSettles(i, out) /\ audits[i].st = "psi") =>
                    audits'[i].st = "crawl" /\ NoScores(audits'[i])
        /\ (~env.PSI_KEY /\ audits[i].st = "probe" /\ audits[i].k = Len(coreTargets)
                /\ \E out \in {"ok", "non2xx"} : ProbeSettles(i, out)) =>
                    audits'[i].st = "crawl" /\ NoScores(audits'[i])
        /\ (audits'[i].result # None
                /\ {audits'[i].psi.mobile, audits'[i].psi.desktop} \cap {"failed", "nokey"} # {}) =>
                    /\ audits'[i].result[1].pagespeed.mobileScore = "absent"
                    /\ audits'[i].result[1].pagespeed.desktopScore = "absent"]_vars

\* an audit whose mobile performance call failed and whose desktop call was
\* answered with a score has returned its result
C10_Witness ==
    \E i \in 1..Len(audits) :
        /\ audits[i].st = "fulfilled"
        /\ audits[i].psi.mobile = "failed" /\ audits[i].psi.desktop = "score"
        /\ audits[i].result[1].pagespeed.mobileScore = "absent"
        /\ audits[i].result[1].pagespeed.desktopScore = "absent"

\* C11: with a webhook configured, the webhook request is issued at most once
\* per request and only when every audit of the batch has returned its
\* result, and the response (status 200, the results) is the same whether the
\* webhook call is answered 2xx, answered with an error status or throws.
C11_WebhookOnceAfterAuditsAndIgnored ==
    [][/\ (webhook' = "pending" /\ webhook # "pending") =>
            /\ webhook = "unsent" /\ env.N8N
            /\ \A i \in 1..Len(audits') : audits'[i].st = "fulfilled"
       /\ webhook # "unsent" => webhook' # "unsent"
       /\ webhook \notin {"unsent", "pending"} => webhook' = webhook
       /\ \A out \in Outcomes : WebhookSettles(out) =>
            /\ response'[1].status = 200
            /\ response'[1].results = [i \in 1..Len(audits) |-> audits[i].result[1]]]_vars

\* the webhook call threw after two audits and the response is their results
C11_Witness ==
    /\ webhook = "throw"
    /\ response # None /\ response[1].status = 200 /\ Len(response[1].results) = 2

C19_ListInListOut ==
    (response # None /\ response[1].status = 200) =>
        /\ Len(body.urls) > 1 => response[1].kind = "list"
        /\ response[1].kind = "single" => Len(body.urls) = 1

\* the phase a request belongs to
PhaseOf(kind) ==
    CASE kind = "home" -> 1 [] kind = "probe" -> 2 [] kind = "psi" -> 3
      [] kind = "crawl" -> 4 [] kind = "enrich" -> 5

\* C20: within one audit the requests are issued in the order home fetch,
\* core-file probes (one at a time), the two performance calls (together),
\* crawl, enrichment (only when options.enrichment is set), each phase starting
\* only when every request of the phases before it has settled; after a failed
\* home fetch no further request is issued.
C20_PhasesInOrder ==
    \A i \in 1..Len(audits) :
        LET a == audits[i]
        IN  /\ \A m, n \in 1..Len(a.sent) : m < n => PhaseOf(a.sent[m].kind) <= PhaseOf(a.sent[n].kind)
            /\ \A p, q \in a.pending : PhaseOf(p.kind) = PhaseOf(q.kind)
            /\ \A p \in a.pending : PhaseOf(p.kind) = PhaseOf(a.sent[Len(a.sent)].kind)
            /\ Cardinality({p \in a.pending : p.kind = "probe"}) <= 1
            /\ (\E n \in 1..Len(a.sent) : a.sent[n].kind = "enrich") => body.enrichment
            /\ (a.home = None /\ a.st = "rejected") => a.sent = <<Req("home", "/")>>

\* the status an issue list gives the check id
IssueStatus(iss, id) == iss[CHOOSE i \in 1..Len(iss) : iss[i].id = id].status

\* C12: the h1_tag issue is pass when the page has exactly one H1 and warn
\* when it has none or more than one; it is never fail.
C12_H1PassOrWarn ==
    evaluated # None =>
        IssueStatus(evaluated[1], "h1_tag") =
            IF Cardinality({i \in 1..Len(page[1].hMatches) : page[1].hMatches[i] = 1}) = 1
            THEN "pass" ELSE "warn"

\* C13: the heading_hierarchy issue is pass exactly when every heading but
\* the first is at most one level deeper than the heading before it (so pages
\* with no or one heading pass); otherwise it is warn; it is never fail.
C13_HierarchyPassIffNoJump ==
    evaluated # None =>
        LET h == page[1].hMatches
        IN  IssueStatus(evaluated[1], "heading_hierarchy") =
                IF \A i \in 1..(Len(h) - 1) : h[i + 1] - h[i] <= 1 THEN "pass" ELSE "warn"

\* a page that opens with an H3 followed by an H4 and an H2 was evaluated and
\* its hierarchy passes
C13_Witness ==
    /\ evaluated # None
    /\ page[1].hMatches = <<3, 4, 2>>
    /\ IssueStatus(evaluated[1], "heading_hierarchy") = "pass"

\* the elements of a sequence
Range(seq) == {seq[k] : k \in 1..Len(seq)}

\* the place of a type in the recommended list
RecommendedPlace(t) == CHOOSE k \in 1..Len(RECOMMENDED_SCHEMA) : RECOMMENDED_SCHEMA[k] = t

\* C15: schema.suggestions holds no type that is in schema.detectedTypes, has
\* at most 10 entries, and every entry is one of the recommended types, in the
\* order of the recommended list.
C15_SuggestionsMissingRecommendedTypes ==
    schema # None =>
        LET sg == schema[1].suggestions
        IN  /\ Range(sg) \cap Range(schema[1].detectedTypes) = {}
            /\ Len(sg) <= 10
            /\ Range(sg) \subseteq Range(RECOMMENDED_SCHEMA)
            /\ \A m, n \in 1..Len(sg) : m < n => RecommendedPlace(sg[m]) < RecommendedPlace(sg[n])

\* a page on which five recommended types were detected got the eight others
\* as suggestions
C15_Witness ==
    /\ schema # None
    /\ Cardinality(Range(schema[1].detectedTypes) \cap Range(RECOMMENDED_SCHEMA)) = 5
    /\ Len(schema[1].suggestions) = 8

\* the records block b contributes: none when its text does not parse, its
\* elements when it is a list, else itself
Records(b) == IF ~b.ok THEN << >> ELSE IF b.json.kind = "arr" THEN b.json.kids ELSE <<b.json>>

\* how many records the blocks before place k contribute
RecordsBefore(blocks, k) == SumOver(1..(k - 1), [j \in 1..(k - 1) |-> Len(Records(blocks[j]))])

\* C17: for any sequence of blocks extractJsonLd returns, in document order,
\* the records of every block that parses, list-valued blocks flattened into
\* their elements, and nothing for a block that does not parse.
C17_MalformedBlocksDropped ==
    jsonld # None =>
        /\ Len(jsonld[1]) = RecordsBefore(html, Len(html) + 1)
        /\ \A k \in 1..Len(html) : \A n \in 1..Len(Records(html[k])) :
                jsonld[1][RecordsBefore(html, k) + n] = Records(html[k])[n]

\* a page with one valid block and one that does not parse gave one record
C17_Witness ==
    /\ jsonld # None
    /\ Len(html) = 2 /\ html[1].ok /\ html[1].json.kind = "obj" /\ ~html[2].ok
    /\ Len(jsonld[1]) = 1

\* the places of the email and calendly contacts among the contacts found
EmailOrCalendly(out) == {i \in 1..Len(out) : out[i].type \in {"email", "calendly"}}

\* C14: discoverContacts returns as best the email or calendly contact of
\* highest confidence, the earliest found among those of equal confidence, and
\* null when there is no email or calendly contact; a contact of another type
\* is never selected.
C14_BestIsTopEmailOrCalendly ==
    found # None =>
        LET out == found[1].contacts
            cand == EmailOrCalendly(out)
        IN  IF cand = {} THEN found[1].best = None
            ELSE \E i \in cand :
                    /\ found[1].best = Some(out[i])
                    /\ \A j \in cand :
                        \/ out[j].confidence < out[i].confidence
                        \/ out[j].confidence = out[i].confidence /\ j >= i

\* a calendly link was found before a contact-point email of the same
\* confidence and a vcard, and the calendly link is the best contact
C14_Witness ==
    /\ found # None /\ found[1].best # None
    /\ found[1].best[1].type = "calendly"
    /\ \E j \in 1..Len(found[1].contacts) :
            found[1].contacts[j].type = "email" /\ found[1].contacts[j].confidence = 85
    /\ \E j \in 1..Len(found[1].contacts) : found[1].contacts[j].type = "vcard"

\* C18: when the body text of a crawled page holds `jane [at] example [dot]
\* com`, discoverContacts yields from that page a contact of type email with
\* the value jane@example.com.
C18_ObfuscatedEmailFound ==
    found # None =>
        \A k \in 1..Len(crawled) :
            (\E p \in 1..(Len(crawled[k].body) - 8) :
                SubSeq(crawled[k].body, p, p + 8) =
                    <<"jane", " ", "[at]", " ", "example", " ", "[dot]", " ", "com">>) =>
                \E j \in 1..Len(found[1].contacts) :
                    /\ found[1].contacts[j].type = "email"
                    /\ found[1].contacts[j].sourceUrl = crawled[k].url
                    /\ found[1].contacts[j].value = <<"jane", "@", "example", ".", "com">>

\* the categories that weight check id
WeightedIn(id) == {c \in DOMAIN weights : id \in DOMAIN weights[c]}

\* C22: every check id evaluateHome emits is weighted in exactly one scoring
\* category, that category is the one in the issue's category field, and
\* every weighted id is emitted, so that scoreCategories never meets an
\* absent check in a list evaluateHome produced.
C22_EmittedIdsAreTheWeightedIds ==
    evaluated # None =>
        LET iss == evaluated[1]
        IN  /\ \A k \in 1..Len(iss) : WeightedIn(iss[k].id) = {iss[k].category}
            /\ \A c \in DOMAIN weights : \A id \in DOMAIN weights[c] :
                    \E k \in 1..Len(iss) : iss[k].id = id

\* the page with nothing on it was evaluated and gave an issue per weighted id
C22_Witness ==
    /\ evaluated # None /\ page = Some(EmptyPage)
    /\ Len(evaluated[1]) = Cardinality(UNION {DOMAIN weights[c] : c \in DOMAIN weights})

\* C24: for a page with no img elements the three image checks are emitted
\* once each, image_alt and image_filename with status pass and image_lazy
\* with status fail.
C24_NoImagesFailsLazyOnly ==
    (evaluated # None /\ page[1].imgs = << >>) =>
        LET iss == evaluated[1]
        IN  /\ \A id \in {"image_alt", "image_lazy", "image_filename"} :
                    Cardinality({k \in 1..Len(iss) : iss[k].id = id}) = 1
            /\ IssueStatus(iss, "image_alt") = "pass"
            /\ IssueStatus(iss, "image_filename") = "pass"
            /\ IssueStatus(iss, "image_lazy") = "fail"

\* a page that passes every other check but has no images was evaluated
C24_Witness ==
    /\ evaluated # None
    /\ page = Some([DefaultPage EXCEPT !.imgs = << >>])
    /\ IssueStatus(evaluated[1], "image_lazy") = "fail"
    /\ \A k \in 1..Len(evaluated[1]) :
            evaluated[1][k].id # "image_lazy" => evaluated[1][k].status = "pass"

\* the page requests audit a has issued for its crawl, in the order issued
CrawlRequests(a) == SelectSeq(a.sent, LAMBDA r : r.kind = "crawl")

\* the first six paths of the crawl's path list
FirstSixPaths == <<"/", "/contact", "/about", "/team", "/company", "/leadership">>

\* C21: for each origin the crawl issues at most 6 page requests, in the
\* order of the path list from the home path on, each one only when the one
\* before it has been answered; a page answered non-2xx is left out and the
\* crawl goes on to the sixth path, so an audit that returns has requested
\* all six paths and hands at most 6 pages, in path order and one for each
\* 2xx answer, to contact discovery.
C21_CrawlSixPagesInTurn ==
    \A i \in 1..Len(audits) :
        LET a == audits[i]
            cr == CrawlRequests(a)
            waiting == {r \in a.pending : r.kind = "crawl"}
        IN  /\ Len(cr) <= 6
            /\ \A n \in 1..Len(cr) : cr[n].arg = FirstSixPaths[n]
            /\ waiting = {} \/ waiting = {cr[Len(cr)]}
            /\ a.st = "crawl" => waiting # {}
            /\ Len(a.pages) <= 6
            /\ a.pages = SelectSeq(FirstSixPaths, LAMBDA p : p \in Range(a.pages))
            /\ \A p \in Range(a.pages) :
                    \E n \in 1..Len(cr) : cr[n].arg = p /\ cr[n] \notin waiting
            /\ a.st \in {"enrich", "fulfilled"} =>
                    /\ Len(cr) = 6 /\ waiting = {}
                    /\ 6 - Len(a.pages) <= faults

\* an audit returned after six page requests of which /contact was answered
\* non-2xx: five pages went to contact discovery
C21_Witness ==
    \E i \in 1..Len(audits) :
        /\ audits[i].st = "fulfilled"
        /\ Len(CrawlRequests(audits[i])) = 6
        /\ audits[i].pages = <<"/", "/about", "/team", "/company", "/leadership">>

\* C23: when either performance call failed, or the key is missing, the
\* result has neither mobileScore nor desktopScore and its topActions are
\* empty, whatever the other call was answered; a result has both scores only
\* when both calls were answered with a score.
C23_AnyPsiFailureDropsAll ==
    \A i \in 1..Len(audits) :
        audits[i].result # None =>
            LET a == audits[i]
                ps == a.result[1].pagespeed
            IN  /\ ({a.psi.mobile, a.psi.desktop} \cap {"failed", "nokey"} # {}) =>
                        /\ ps.mobileScore = "absent" /\ ps.desktopScore = "absent"
                        /\ ps.topActions = {}
                /\ (ps.mobileScore = "present" /\ ps.desktopScore = "present") =>
                        a.psi.mobile = "score" /\ a.psi.desktop = "score"

\* the mobile call was answered with a score before the desktop call failed,
\* and the result has no score and no action
C23_Witness ==
    \E i \in 1..Len(audits) :
        /\ audits[i].st = "fulfilled"
        /\ audits[i].psi.mobile = "score" /\ audits[i].psi.desktop = "failed"
        /\ audits[i].result[1].pagespeed =
                [mobileScore |-> "absent", desktopScore |-> "absent", topActions |-> {}]

=============================================================================
